---- MODULE Spec2Model ----
(***************************************************************************)
(* secret-loader: a credential reference string ("env:NAME", "file:PATH",  *)
(* or a literal) is parsed into a SecretLoader / Credential and resolved   *)
(* into a secret by one environment read or one file read.                 *)
(*                                                                         *)
(* Strings are sequences of one-character strings, so that prefix tests    *)
(* and slicing are computed position by position as the code does.         *)
(***************************************************************************)
EXTENDS Naturals, Sequences, FiniteSets, TLC

VARIABLES
    src,       \* the raw configuration string handed to the parser
    loader,    \* the SecretLoader built from src (loader.rs), or None
    cred,      \* the Credential built by Credential::from_str (credential.rs)
    dcred,     \* the Credential built by Deserialize (serde.rs)
    env,       \* the process environment
    fs,        \* the filesystem
    secret,    \* the outcome of the most recent resolving call
    previous,  \* the outcome of the loader's resolution before the latest one
    lookups,   \* the environment/file reads made by the most recent call
    modified   \* history: the filesystem was written since the last resolve

vars == <<src, loader, cred, dcred, env, fs, secret, previous, lookups, modified>>

(***************************************************************************)
(* Bounds                                                                  *)
(***************************************************************************)
\* number of tokens concatenated into an input of the parser specification
MaxParts == 3
\* number of tokens concatenated into an input of the resolving specifications
MaxRefParts == 2

(***************************************************************************)
(* Strings                                                                 *)
(***************************************************************************)
EnvPrefix == <<"e", "n", "v", ":">>
FilePrefix == <<"f", "i", "l", "e", ":">>

\* a prefix test that accepts the pattern anywhere in the text
starts_with_anywhere(val, pat) ==
    \E k \in 0..Len(val) :
        /\ Len(val) >= k + Len(pat)
        /\ \A i \in 1..Len(pat) : val[k + i] = pat[i]

\* str::starts_with
starts_with(val, pat) ==
    /\ Len(val) >= Len(pat)
    /\ \A i \in 1..Len(pat) : val[i] = pat[i]

\* the slice val[n..] is in range (all model characters are one byte wide)
slice_ok(val, n) == n <= Len(val)

\* val[n..]
slice_from(val, n) == SubSeq(val, n + 1, Len(val))

RECURSIVE Concats(_, _)
Concats(T, k) ==
    IF k = 0 THEN {<<>>}
    ELSE LET S == Concats(T, k - 1) IN S \cup {s \o t : s \in S, t \in T}

\* tokens of the inputs that are resolved: the two prefixes and a name/path
RefTokens == {EnvPrefix, FilePrefix, <<"x">>}
\* near misses of the prefixes: other letter case, a typo, leading whitespace
NearTokens == {<<"E", "N", "V", ":">>, <<"F", "i", "l", "e", ":">>,
               <<"e", "n", "v", ";">>, <<" ">>}

RefInputs == Concats(RefTokens, MaxRefParts)
ParseInputs == Concats(RefTokens \cup NearTokens, MaxParts)

(***************************************************************************)
(* Values                                                                  *)
(***************************************************************************)
None == [tag |-> "None"]
Some(v) == [tag |-> "Some", val |-> v]
Panicked == [tag |-> "Panic"]

\* Secret<String> as built by str::parse (secrecy's FromStr keeps the text)
SecretString(s) == [inner |-> s]
expose_secret(x) == x.inner

\* Utf8PathBuf as built by str::parse / Utf8Path::new(..).into(): the text kept
Utf8PathBuf(s) == [path |-> s]
as_str(p) == p.path

Env(name) == [tag |-> "Env", name |-> name]
File(path) == [tag |-> "File", path |-> path]
Plain(sec) == [tag |-> "Plain", secret |-> sec]

Ok(v) == [ok |-> TRUE, val |-> v]
Err(e) == [ok |-> FALSE, err |-> e]

(***************************************************************************)
(* loader.rs: parsing                                                      *)
(***************************************************************************)
\* a parser that cuts the "env:" remainder one character late
SecretLoader_from_str_late(s) ==
    CASE starts_with(s, EnvPrefix) ->
             IF slice_ok(s, 5) THEN Ok(Env(slice_from(s, 5))) ELSE Panicked
      [] starts_with(s, FilePrefix) ->
             IF slice_ok(s, 5) THEN Ok(File(Utf8PathBuf(slice_from(s, 5)))) ELSE Panicked
      [] OTHER -> Ok(Plain(SecretString(s)))

\* a parser that cuts the "file:" remainder one character early
SecretLoader_from_str_early(s) ==
    CASE starts_with(s, EnvPrefix) ->
             IF slice_ok(s, 4) THEN Ok(Env(slice_from(s, 4))) ELSE Panicked
      [] starts_with(s, FilePrefix) ->
             IF slice_ok(s, 4) THEN Ok(File(Utf8PathBuf(slice_from(s, 4)))) ELSE Panicked
      [] OTHER -> Ok(Plain(SecretString(s)))

\* impl FromStr for SecretLoader
SecretLoader_from_str(s) ==
    CASE starts_with(s, EnvPrefix) ->
             IF slice_ok(s, 4) THEN Ok(Env(slice_from(s, 4))) ELSE Panicked
      [] starts_with(s, FilePrefix) ->
             IF slice_ok(s, 5) THEN Ok(File(Utf8PathBuf(slice_from(s, 5)))) ELSE Panicked
      [] OTHER -> Ok(Plain(SecretString(s)))

\* Result::unwrap / Result::expect on the parse result
unwrap(r) == IF r = Panicked THEN Panicked ELSE IF r.ok THEN r.val ELSE Panicked

\* SecretLoader::new
SecretLoader_new(val) == unwrap(SecretLoader_from_str(val))

\* impl From<String> for SecretLoader
SecretLoader_from(s) == unwrap(SecretLoader_from_str(s))

is_env(self) == self.tag = "Env"
is_file(self) == self.tag = "File"
\* a predicate that takes everything but Env for plaintext
is_plain_not_env(self) == self.tag # "Env"
is_plain(self) == self.tag = "Plain"

(***************************************************************************)
(* error.rs: the two failure kinds and the conversions used by `?`         *)
(***************************************************************************)
LoadError_Io(e) == [kind |-> "Io", cause |-> e]
LoadError_Env(e) == [kind |-> "Env", cause |-> e]

\* impl Display for LoadError
Display(e) == IF e.kind = "Io" THEN "Io Error" ELSE "Env Error"

\* impl From<IoError> for LoadError
From_IoError(e) == LoadError_Io(e)

\* a conversion that files an environment failure under Io
From_VarError_as_io(e) == LoadError_Io(e)

\* impl From<VarError> for LoadError
From_VarError(e) == LoadError_Env(e)

(***************************************************************************)
(* The platform: environment and filesystem                                *)
(***************************************************************************)
\* names the environment may hold (set_var rejects the empty name)
VarNames == {<<"x">>}
\* paths the filesystem may hold
Paths == {<<"x">>}
\* texts an environment variable or a file may hold
Texts == {<<"s">>, <<"s", "\n">>}

Unset == [kind |-> "unset", val |-> <<>>]
NotUnicode == [kind |-> "bytes", val |-> <<>>]
Text(t) == [kind |-> "text", val |-> t]
EnvVals == {Unset, NotUnicode} \cup {Text(t) : t \in Texts}

Missing == [kind |-> "missing", val |-> <<>>]
Directory == [kind |-> "dir", val |-> <<>>]
Denied == [kind |-> "denied", val |-> <<>>]
Binary == [kind |-> "bytes", val |-> <<>>]
FileVals == {Missing, Directory, Denied, Binary} \cup {Text(t) : t \in Texts}

\* std::env::var(key) in environment e
env_var(e, key) ==
    IF key \notin DOMAIN e THEN Err("NotPresent")
    ELSE CASE e[key].kind = "unset" -> Err("NotPresent")
           [] e[key].kind = "bytes" -> Err("NotUnicode")
           [] OTHER -> Ok(e[key].val)

\* the text without one trailing newline
trim_newline(t) ==
    IF Len(t) > 0 /\ t[Len(t)] = "\n" THEN SubSeq(t, 1, Len(t) - 1) ELSE t

\* a file read that drops the trailing newline
read_to_string_trimmed(f, path) ==
    IF as_str(path) \notin DOMAIN f THEN Err("NotFound")
    ELSE LET n == f[as_str(path)] IN
         CASE n.kind = "missing" -> Err("NotFound")
           [] n.kind = "dir" -> Err("IsADirectory")
           [] n.kind = "denied" -> Err("PermissionDenied")
           [] n.kind = "bytes" -> Err("InvalidData")
           [] OTHER -> Ok(trim_newline(n.val))

\* std::fs::read_to_string(path) in filesystem f
read_to_string(f, path) ==
    IF as_str(path) \notin DOMAIN f THEN Err("NotFound")
    ELSE LET n == f[as_str(path)] IN
         CASE n.kind = "missing" -> Err("NotFound")
           [] n.kind = "dir" -> Err("IsADirectory")
           [] n.kind = "denied" -> Err("PermissionDenied")
           [] n.kind = "bytes" -> Err("InvalidData")
           [] OTHER -> Ok(n.val)

EnvRead(key) == [kind |-> "env", key |-> key]
FileRead(path) == [kind |-> "file", key |-> as_str(path)]

(***************************************************************************)
(* loader.rs: resolving.  A call yields its result and the reads it made.  *)
(***************************************************************************)
Call(reads, out) == [reads |-> reads, out |-> out]

\* a resolver that treats a plaintext secret as an environment variable name
\* when such a variable is set
into_secret_plain_lookup(self, e, f) ==
    CASE self.tag = "Env" ->
             LET r == env_var(e, self.name) IN
             Call(<<EnvRead(self.name)>>,
                  IF r.ok THEN Ok(SecretString(r.val)) ELSE Err(From_VarError(r.err)))
      [] self.tag = "File" ->
             LET r == read_to_string(f, self.path) IN
             Call(<<FileRead(self.path)>>,
                  IF r.ok THEN Ok(SecretString(r.val)) ELSE Err(From_IoError(r.err)))
      [] OTHER ->
             LET r == env_var(e, expose_secret(self.secret)) IN
             IF r.ok THEN Call(<<EnvRead(expose_secret(self.secret))>>, Ok(SecretString(r.val)))
             ELSE Call(<<>>, Ok(self.secret))

\* a resolver that hands out the secret it resolved last instead of reading again
into_secret_cached(self, e, f) ==
    IF secret.op # "none" /\ secret.arg = self /\ secret.out.ok
    THEN Call(<<>>, secret.out)
    ELSE CASE self.tag = "Env" ->
                  LET r == env_var(e, self.name) IN
                  Call(<<EnvRead(self.name)>>,
                       IF r.ok THEN Ok(SecretString(r.val)) ELSE Err(From_VarError(r.err)))
           [] self.tag = "File" ->
                  LET r == read_to_string(f, self.path) IN
                  Call(<<FileRead(self.path)>>,
                       IF r.ok THEN Ok(SecretString(r.val)) ELSE Err(From_IoError(r.err)))
           [] OTHER -> Call(<<>>, Ok(self.secret))

\* a resolver that falls back to the environment when the file read fails
into_secret_fallback(self, e, f) ==
    CASE self.tag = "Env" ->
             LET r == env_var(e, self.name) IN
             Call(<<EnvRead(self.name)>>,
                  IF r.ok THEN Ok(SecretString(r.val)) ELSE Err(From_VarError(r.err)))
      [] self.tag = "File" ->
             LET r == read_to_string(f, self.path) IN
             IF r.ok THEN Call(<<FileRead(self.path)>>, Ok(SecretString(r.val)))
             ELSE LET r2 == env_var(e, as_str(self.path)) IN
                  Call(<<FileRead(self.path), EnvRead(as_str(self.path))>>,
                       IF r2.ok THEN Ok(SecretString(r2.val)) ELSE Err(From_IoError(r.err)))
      [] OTHER -> Call(<<>>, Ok(self.secret))

\* SecretLoader::into_secret
into_secret(self, e, f) ==
    CASE self.tag = "Env" ->
             LET r == env_var(e, self.name) IN
             Call(<<EnvRead(self.name)>>,
                  IF r.ok THEN Ok(SecretString(r.val)) ELSE Err(From_VarError(r.err)))
      [] self.tag = "File" ->
             LET r == read_to_string(f, self.path) IN
             Call(<<FileRead(self.path)>>,
                  IF r.ok THEN Ok(SecretString(r.val)) ELSE Err(From_IoError(r.err)))
      [] OTHER -> Call(<<>>, Ok(self.secret))

\* impl TryFrom<SecretLoader> for Secret<String>
SecretLoader_try_from(value, e, f) == into_secret(value, e, f)

(***************************************************************************)
(* credential.rs: the parallel implementation                              *)
(***************************************************************************)
\* impl FromStr for Credential
Credential_from_str(s) ==
    CASE starts_with(s, EnvPrefix) ->
             IF slice_ok(s, 4) THEN Ok(Env(slice_from(s, 4))) ELSE Panicked
      [] starts_with(s, FilePrefix) ->
             IF slice_ok(s, 5) THEN Ok(File(Utf8PathBuf(slice_from(s, 5)))) ELSE Panicked
      [] OTHER -> Ok(Plain(SecretString(s)))

\* impl From<String> for Credential
Credential_from(s) == unwrap(Credential_from_str(s))

\* the conversions `?` applies in credential.rs (Error::Env, Error::Io)
Error_from_VarError(e) == [kind |-> "Env", cause |-> e]
Error_from_IoError(e) == [kind |-> "Io", cause |-> e]

\* impl TryFrom<Credential> for Secret<String>
Credential_try_from(value, e, f) ==
    CASE value.tag = "Env" ->
             LET r == env_var(e, value.name) IN
             Call(<<EnvRead(value.name)>>,
                  IF r.ok THEN Ok(SecretString(r.val)) ELSE Err(Error_from_VarError(r.err)))
      [] value.tag = "File" ->
             LET r == read_to_string(f, value.path) IN
             Call(<<FileRead(value.path)>>,
                  IF r.ok THEN Ok(SecretString(r.val)) ELSE Err(Error_from_IoError(r.err)))
      [] OTHER -> Call(<<>>, Ok(value.secret))

(***************************************************************************)
(* serde.rs: the deserialization adapter.  The deserializer hands over a   *)
(* wire value: a string, null (an absent option) or a value of another     *)
(* type.                                                                   *)
(***************************************************************************)
WireNull == [kind |-> "null", val |-> <<>>]
WireStr(s) == [kind |-> "str", val |-> s]
WireOther == [kind |-> "other", val |-> <<>>]

\* String::deserialize(deserializer)
String_deserialize(w) ==
    IF w.kind = "str" THEN Ok(w.val) ELSE Err([kind |-> "De", msg |-> "invalid type"])

\* a deserializer that tests for "file:" before "env:" and anywhere in the text
Credential_deserialize_loose(w) ==
    LET s == String_deserialize(w) IN
    IF ~s.ok THEN s
    ELSE CASE starts_with(s.val, FilePrefix) ->
                  IF slice_ok(s.val, 5)
                  THEN Ok(File(Utf8PathBuf(slice_from(s.val, 5)))) ELSE Panicked
           [] starts_with_anywhere(s.val, EnvPrefix) ->
                  IF slice_ok(s.val, 4) THEN Ok(Env(slice_from(s.val, 4))) ELSE Panicked
           [] OTHER -> Ok(Plain(SecretString(s.val)))

\* impl Deserialize for Credential
Credential_deserialize(w) ==
    LET s == String_deserialize(w) IN
    IF ~s.ok THEN s
    ELSE CASE starts_with(s.val, EnvPrefix) ->
                  IF slice_ok(s.val, 4) THEN Ok(Env(slice_from(s.val, 4))) ELSE Panicked
           [] starts_with(s.val, FilePrefix) ->
                  IF slice_ok(s.val, 5)
                  THEN Ok(File(Utf8PathBuf(slice_from(s.val, 5)))) ELSE Panicked
           [] OTHER -> Ok(Plain(SecretString(s.val)))

\* <Option<Credential>>::deserialize(deserializer)
Option_Credential_deserialize(w) ==
    IF w.kind = "null" THEN Ok(None) ELSE Credential_deserialize(w)

\* serde::de::Error::custom: keeps the error's Display text
DeError_custom(e) == [kind |-> "De", msg |-> Display(e)]

\* deserialize_secret
deserialize_secret(w, e, f) ==
    LET d == Option_Credential_deserialize(w) IN
    IF d = Panicked THEN Call(<<>>, Panicked)
    ELSE IF ~d.ok THEN Call(<<>>, d)
    ELSE IF d.val = None THEN Call(<<>>, Ok(None))
    ELSE LET c == Credential_try_from(d.val, e, f) IN
         Call(c.reads,
              IF c.out.ok THEN Ok(Some(c.out.val)) ELSE Err(DeError_custom(c.out.err)))

(***************************************************************************)
(* State machine                                                           *)
(***************************************************************************)
\* what the caller keeps of a resolving call: the call, its argument, its result
NoCall == [op |-> "none", arg |-> None, out |-> None]
Outcome(op, arg, out) == [op |-> op, arg |-> arg, out |-> out]

Init ==
    /\ src = <<>>
    /\ loader = None
    /\ cred = None
    /\ dcred = None
    /\ env = [n \in VarNames |-> Unset]
    /\ fs = [p \in Paths |-> Missing]
    /\ secret = NoCall
    /\ previous = NoCall
    /\ lookups = <<>>
    /\ modified = FALSE

\* the caller obtains the raw text of a configuration value
Configure(S) ==
    /\ \E s \in S : src' = s
    /\ loader' = None
    /\ cred' = None
    /\ dcred' = None
    /\ secret' = NoCall
    /\ previous' = NoCall
    /\ lookups' = <<>>
    /\ modified' = FALSE
    /\ UNCHANGED <<env, fs>>

ConfigureRef == Configure(RefInputs)
ConfigureAny == Configure(ParseInputs)

\* SecretLoader::new(src)
New ==
    /\ loader' = SecretLoader_new(src)
    /\ lookups' = <<>>
    /\ UNCHANGED <<src, cred, dcred, env, fs, secret, previous, modified>>

\* src.parse::<SecretLoader>().unwrap(), as the tests build a loader
Parse ==
    /\ loader' = unwrap(SecretLoader_from_str(src))
    /\ lookups' = <<>>
    /\ UNCHANGED <<src, cred, dcred, env, fs, secret, previous, modified>>

\* SecretLoader::from(src.to_string())
FromString ==
    /\ loader' = SecretLoader_from(src)
    /\ lookups' = <<>>
    /\ UNCHANGED <<src, cred, dcred, env, fs, secret, previous, modified>>

IsLoader(l) == l.tag \in {"Env", "File", "Plain"}

\* loader.into_secret(): the loader is moved into the call
IntoSecret ==
    /\ IsLoader(loader)
    /\ LET c == into_secret(loader, env, fs) IN
       /\ secret' = Outcome("into_secret", loader, c.out)
       /\ lookups' = c.reads
    /\ previous' = secret
    /\ loader' = None
    /\ modified' = FALSE
    /\ UNCHANGED <<src, cred, dcred, env, fs>>

\* loader.clone().try_into(): the caller keeps the loader to resolve it again
CloneTryInto ==
    /\ IsLoader(loader)
    /\ LET c == SecretLoader_try_from(loader, env, fs) IN
       /\ secret' = Outcome("try_from", loader, c.out)
       /\ lookups' = c.reads
    /\ previous' = secret
    /\ modified' = FALSE
    /\ UNCHANGED <<src, loader, cred, dcred, env, fs>>

\* env::set_var(name, value) by the host process
SetVar ==
    /\ \E n \in VarNames, v \in EnvVals \ {Unset} : env' = [env EXCEPT ![n] = v]
    /\ UNCHANGED <<src, loader, cred, dcred, fs, secret, previous, lookups, modified>>

\* env::remove_var(name) by the host process
RemoveVar ==
    /\ \E n \in VarNames : env' = [env EXCEPT ![n] = Unset]
    /\ UNCHANGED <<src, loader, cred, dcred, fs, secret, previous, lookups, modified>>

\* a file (or directory) is created or rewritten at a path
WriteFile ==
    /\ \E p \in Paths, v \in FileVals \ {Missing} :
          /\ fs[p] # v
          /\ fs' = [fs EXCEPT ![p] = v]
    /\ modified' = TRUE
    /\ UNCHANGED <<src, loader, cred, dcred, env, secret, previous, lookups>>

\* the file at a path is deleted
RemoveFile ==
    /\ \E p \in Paths :
          /\ fs[p] # Missing
          /\ fs' = [fs EXCEPT ![p] = Missing]
    /\ modified' = TRUE
    /\ UNCHANGED <<src, loader, cred, dcred, env, secret, previous, lookups>>

Platform == SetVar \/ RemoveVar \/ WriteFile \/ RemoveFile

\* src.parse::<Credential>().unwrap()
CredentialParse ==
    /\ cred' = unwrap(Credential_from_str(src))
    /\ lookups' = <<>>
    /\ UNCHANGED <<src, loader, dcred, env, fs, secret, previous, modified>>

\* Credential::from(src.to_string())
CredentialFrom ==
    /\ cred' = Credential_from(src)
    /\ lookups' = <<>>
    /\ UNCHANGED <<src, loader, dcred, env, fs, secret, previous, modified>>

\* Credential::deserialize on a deserializer holding the string src
Deserialize ==
    /\ dcred' = unwrap(Credential_deserialize(WireStr(src)))
    /\ lookups' = <<>>
    /\ UNCHANGED <<src, loader, cred, env, fs, secret, previous, modified>>

\* cred.clone().try_into()
CredentialTryInto ==
    /\ IsLoader(cred)
    /\ LET c == Credential_try_from(cred, env, fs) IN
       /\ secret' = Outcome("try_from", cred, c.out)
       /\ lookups' = c.reads
    /\ modified' = FALSE
    /\ UNCHANGED <<src, loader, cred, dcred, env, fs, previous>>

\* the wire values a deserializer may hold for the configured field
WireValues == {WireNull, WireOther, WireStr(src)}

\* deserialize_secret(deserializer)
DeserializeSecret ==
    /\ \E w \in WireValues :
          LET c == deserialize_secret(w, env, fs) IN
          /\ secret' = Outcome("deserialize_secret", w, c.out)
          /\ lookups' = c.reads
    /\ modified' = FALSE
    /\ UNCHANGED <<src, loader, cred, dcred, env, fs, previous>>

Next == ConfigureRef \/ New \/ IntoSecret \/ CloneTryInto \/ Platform

Spec == Init /\ [][Next]_vars

NextParse == ConfigureAny \/ New \/ Parse \/ FromString

SpecParse == Init /\ [][NextParse]_vars

NextSerde ==
    \/ ConfigureRef \/ CredentialParse \/ CredentialFrom \/ Deserialize
    \/ CredentialTryInto \/ DeserializeSecret \/ Platform

SpecSerde == Init /\ [][NextSerde]_vars

(***************************************************************************)
(* Properties                                                              *)
(***************************************************************************)
\* s begins with p, read off the text itself
BeginsWith(s, p) == Len(s) >= Len(p) /\ SubSeq(s, 1, Len(p)) = p

Built(l) == l # None

\* C1: every string beginning with "env:" parses to Env whose name is the
\* string without its first 4 characters, verbatim (the empty remainder and
\* a remainder that looks like another prefix included).
C1_EnvNameVerbatim ==
    (Built(loader) /\ BeginsWith(src, EnvPrefix)) =>
        /\ loader.tag = "Env"
        /\ Len(loader.name) = Len(src) - 4
        /\ EnvPrefix \o loader.name = src

C1_Witness ==
    /\ loader.tag = "Env"
    /\ loader.name = FilePrefix \o <<"x">>
    /\ src = EnvPrefix \o FilePrefix \o <<"x">>

\* C3: every string beginning with neither "env:" nor "file:" parses to
\* Plain holding the whole string: the empty string, a prefix after position
\* 0, another letter case, a typo.
C3_PlainVerbatim ==
    (Built(loader) /\ ~BeginsWith(src, EnvPrefix) /\ ~BeginsWith(src, FilePrefix)) =>
        /\ loader.tag = "Plain"
        /\ expose_secret(loader.secret) = src

C3_Witness ==
    /\ loader.tag = "Plain"
    /\ src = <<" ">> \o EnvPrefix \o <<"x">>
    /\ expose_secret(loader.secret) = src

\* C4: parsing is total and yields exactly one variant: no panic, exactly
\* one of is_env, is_file, is_plain holds, is_env iff the string begins with
\* "env:", is_file iff it begins with "file:", is_plain otherwise.
C4_TotalOneVariant ==
    Built(loader) =>
        /\ loader # Panicked
        /\ Cardinality({p \in {"env", "file", "plain"} :
                           \/ p = "env" /\ is_env(loader)
                           \/ p = "file" /\ is_file(loader)
                           \/ p = "plain" /\ is_plain(loader)}) = 1
        /\ is_env(loader) <=> BeginsWith(src, EnvPrefix)
        /\ is_file(loader) <=> BeginsWith(src, FilePrefix)
        /\ is_plain(loader) <=>
              (~BeginsWith(src, EnvPrefix) /\ ~BeginsWith(src, FilePrefix))

C4_Witness ==
    /\ is_file(loader)
    /\ ~is_env(loader)
    /\ ~is_plain(loader)
    /\ src = FilePrefix

\* a resolving call on the loader
Resolving == IntoSecret \/ CloneTryInto

EnvText(n) == n \in VarNames /\ env[n].kind = "text"
FileText(p) == p \in Paths /\ fs[p].kind = "text"

\* C2: every string beginning with "file:" parses to File whose path is the
\* string without its first 5 characters, unmodified, in every state of the
\* filesystem; parsing reads neither the environment nor a file and changes
\* neither.
C2_FilePathVerbatim ==
    [][/\ (Built(loader') /\ BeginsWith(src', FilePrefix)) =>
              /\ loader'.tag = "File"
              /\ Len(as_str(loader'.path)) = Len(src') - 5
              /\ FilePrefix \o as_str(loader'.path) = src'
       /\ New => (lookups' = <<>> /\ env' = env /\ fs' = fs)]_vars

C2_Witness ==
    /\ loader.tag = "File"
    /\ as_str(loader.path) = <<"x">>
    /\ src = FilePrefix \o <<"x">>
    /\ fs[<<"x">>] = Missing

\* C5: resolving a Plain reference holding v succeeds with exactly v, the
\* empty string included, whatever the environment and the filesystem hold,
\* and makes no environment lookup and no file read.
C5_PlainResolves ==
    [][(Resolving /\ loader.tag = "Plain") =>
          /\ secret'.out.ok
          /\ secret'.out.val = loader.secret
          /\ expose_secret(secret'.out.val) = src
          /\ lookups' = <<>>]_vars

C5_Witness ==
    /\ secret.op # "none"
    /\ secret.arg.tag = "Plain"
    /\ secret.out.ok
    /\ expose_secret(secret.out.val) = <<>>
    /\ lookups = <<>>
    /\ env[<<"x">>].kind = "text"
    /\ fs[<<"x">>].kind = "text"

\* C6: resolving an Env reference whose variable holds text returns the text
\* the variable holds at that call, whatever it held when the reference was
\* parsed or resolved before.
C6_EnvCurrentValue ==
    [][(Resolving /\ loader.tag = "Env" /\ EnvText(loader.name)) =>
          /\ secret'.out.ok
          /\ expose_secret(secret'.out.val) = env[loader.name].val]_vars

C6_Witness ==
    /\ secret.op # "none"
    /\ previous.op # "none"
    /\ secret.arg = Env(<<"x">>)
    /\ previous.arg = secret.arg
    /\ previous.out.ok
    /\ secret.out.ok
    /\ previous.out.val # secret.out.val
    /\ env[<<"x">>] = Text(expose_secret(secret.out.val))

\* C7: resolving a File reference whose file holds text returns the whole
\* text as it is at that call, a trailing newline kept; resolving the same
\* reference again while the filesystem is unmodified gives the same result.
C7_FileWholeContent ==
    [][(Resolving /\ loader.tag = "File") =>
          /\ FileText(as_str(loader.path)) =>
                /\ secret'.out.ok
                /\ expose_secret(secret'.out.val) = fs[as_str(loader.path)].val
          /\ (secret.op # "none" /\ secret.arg = loader /\ ~modified) =>
                secret'.out = secret.out]_vars

C7_Witness ==
    /\ secret.op # "none"
    /\ previous.op # "none"
    /\ secret.arg.tag = "File"
    /\ previous.arg = secret.arg
    /\ secret.out.ok
    /\ expose_secret(secret.out.val) = <<"s", "\n">>
    /\ previous.out = secret.out
    /\ ~modified

\* C8: a resolution fails exactly when its one lookup fails, and with the
\* kind of that lookup: an Env reference whose variable is unset or not text
\* fails with LoadError::Env, a File reference whose file is missing,
\* unreadable, a directory or not text fails with LoadError::Io, a Plain
\* reference never fails; a failed lookup never yields a secret.
C8_FailureKind ==
    [][Resolving =>
          LET o == secret'.out IN
          CASE loader.tag = "Env" ->
                   IF EnvText(loader.name) THEN o.ok
                   ELSE ~o.ok /\ o.err.kind = "Env"
                        /\ o.err.cause \in {"NotPresent", "NotUnicode"}
            [] loader.tag = "File" ->
                   IF FileText(as_str(loader.path)) THEN o.ok
                   ELSE ~o.ok /\ o.err.kind = "Io"
                        /\ o.err.cause \in {"NotFound", "IsADirectory",
                                            "PermissionDenied", "InvalidData"}
            [] OTHER -> o.ok]_vars

C8_Witness ==
    /\ secret.op # "none"
    /\ secret.arg = Env(<<"x">>)
    /\ ~secret.out.ok
    /\ secret.out.err.kind = "Env"
    /\ secret.out.err.cause = "NotUnicode"
    /\ env[<<"x">>] = NotUnicode

\* C9: a resolving call leaves the environment and the filesystem as they
\* were and makes exactly one environment read for Env, one file read for
\* File and none for Plain, whether it succeeds or fails: no retry, no
\* fallback to the other mechanism.
C9_ReadOnlySingleShot ==
    [][Resolving =>
          /\ env' = env
          /\ fs' = fs
          /\ Len(lookups') <= 1
          /\ lookups' =
                CASE loader.tag = "Env" -> <<[kind |-> "env", key |-> loader.name]>>
                  [] loader.tag = "File" ->
                         <<[kind |-> "file", key |-> as_str(loader.path)]>>
                  [] OTHER -> <<>>]_vars

C9_Witness ==
    /\ secret.op # "none"
    /\ secret.arg = File(Utf8PathBuf(<<"x">>))
    /\ ~secret.out.ok
    /\ lookups = <<[kind |-> "file", key |-> <<"x">>]>>
    /\ env[<<"x">>].kind = "text"
    /\ fs[<<"x">>] = Missing

\* the two implementations and the adapter agree on the current input
Agree ==
    /\ Built(dcred) => dcred = unwrap(Credential_from_str(src))
    /\ (Built(cred) /\ Built(dcred)) => dcred = cred
    /\ Built(cred) =>
          /\ cred = SecretLoader_new(src)
          /\ Credential_try_from(cred, env, fs) = into_secret(SecretLoader_new(src), env, fs)

\* what deserialize_secret owes for the wire value it was given
DeserializeSecretOwes ==
    LET w == secret'.arg
        o == secret'.out
    IN  CASE w.kind = "null" -> o = Ok(None) /\ lookups' = <<>>
          [] w.kind = "str" ->
                 LET c == Credential_try_from(Credential_from(w.val), env, fs) IN
                 /\ lookups' = c.reads
                 /\ IF c.out.ok THEN o = Ok(Some(c.out.val))
                    ELSE ~o.ok /\ o.err.kind = "De"
          [] OTHER -> ~o.ok /\ lookups' = <<>>

\* C10: Deserialize for Credential yields the variant and payload that
\* Credential::from_str yields for the same string, Credential and
\* SecretLoader classify and resolve every input alike, and deserialize_secret
\* gives Ok(None) without a lookup for an absent value and, for a present
\* one, the result of parsing then resolving it, a resolution failure
\* becoming a deserialization error and not None.
C10_SerdeAgrees ==
    [][/\ Agree'
       /\ DeserializeSecret => DeserializeSecretOwes]_vars

C10_Witness ==
    /\ Built(cred)
    /\ Built(dcred)
    /\ dcred = Env(<<"x">>)
    /\ secret.op = "deserialize_secret"
    /\ secret.arg = WireStr(src)
    /\ ~secret.out.ok
    /\ secret.out.err.kind = "De"
    /\ lookups = <<[kind |-> "env", key |-> <<"x">>]>>

====
